---- MODULE Spec2Model ----
(***************************************************************************)
(* Model of rainze_core::memory_search::VectorIndex, the Mutex-guarded     *)
(* wrapper around a FAISS flat inner-product index                         *)
(* (src/rainze_core/src/memory_search.rs).                                 *)
(*                                                                         *)
(* f32 components are modelled as integers (fixed point, scale 10: the     *)
(* vector [0.9, 0.1] is <<9, 1>>), so that inner products are exact.       *)
(* The flat index is the triple the library keeps: its dimension d, its    *)
(* counter ntotal and the row-major storage xb.                            *)
(***************************************************************************)
EXTENDS Integers, Sequences, FiniteSets, TLC

\* ------------------------------------------------------------------ bounds
NThreads == 2
MaxDim == 2
MaxBatch == 2
MaxTotal == 4
MaxK == 2

\* ------------------------------------------------------------------ inputs
Threads == 1..NThreads
Dims == 1..MaxDim
NewDims == 0..MaxDim
Pool == {<<10, 0>>, <<9, 1>>, <<10>>}
Queries == {<<10, 0>>, <<0, 10>>, <<10>>}
Paths == {"index.bin"}

RECURSIVE SeqsUpTo(_, _)
SeqsUpTo(S, n) ==
    IF n = 0 THEN {<<>>}
    ELSE LET shorter == SeqsUpTo(S, n - 1)
         IN  shorter \cup {Append(s, x) : s \in {r \in shorter : Len(r) = n - 1}, x \in S}

Batches == SeqsUpTo(Pool, MaxBatch)

VARIABLES
    dimension,   \* VectorIndex.dimension
    index,       \* the IndexImpl behind the Mutex: [d, ntotal, xb]
    holders,     \* threads holding a MutexGuard of VectorIndex.index
    poisoned,    \* the Mutex's poison flag
    files,       \* the file system: path -> bytes (<<>>: no such file)
    pc,          \* per thread: where it is in its current call
    op,          \* per thread: the call and its arguments
    loc,         \* per thread: the locals of the call (start_id)
    res,         \* per thread: the PyResult of the call
    pre,         \* history: the index as it was when the thread took the lock
    saved        \* history: per path, the handle as it was at the save that wrote the file

vars == <<dimension, index, holders, poisoned, files, pc, op, loc, res, pre, saved>>

\* ------------------------------------------------------------------ values
NoLabel == -1
NegInf == -1000

NoOp == [name |-> "none", vectors |-> <<>>, query |-> <<>>, k |-> 0, path |-> ""]
NoRes == [kind |-> "none", cause |-> "", type |-> "", val |-> <<>>]
NoLoc == [start_id |-> 0]
EmptyIndex(d) == [d |-> d, ntotal |-> 0, xb |-> <<>>]
NoPre == EmptyIndex(0)
NoSaved == [dimension |-> 0, index |-> NoPre]

Ok(val) == [kind |-> "ok", cause |-> "", type |-> "", val |-> val]

\* The Python exception type each error of the file is raised as.
ErrType(cause) ==
    CASE cause = "construct" -> "PyRuntimeError"
      [] cause = "dimension" -> "PyValueError"
      [] cause = "lock"      -> "PyRuntimeError"
      [] cause = "add"       -> "PyRuntimeError"
      [] cause = "search"    -> "PyRuntimeError"
      [] cause = "save"      -> "PyIOError"
      [] cause = "load"      -> "PyIOError"
      [] cause = "reset"     -> "PyRuntimeError"
      [] cause = "panic"     -> "PanicException"

Err(cause, val) == [kind |-> "err", cause |-> cause, type |-> ErrType(cause), val |-> val]

Min(a, b) == IF a < b THEN a ELSE b

Range(lo, hi) == [j \in 1..(hi - lo) |-> lo + j - 1]

\* ------------------------------------------------------------ the library
RECURSIVE Flatten(_)
Flatten(vectors) ==
    IF vectors = <<>> THEN <<>> ELSE Head(vectors) \o Flatten(Tail(vectors))

Row(idx, id) == SubSeq(idx.xb, id * idx.d + 1, (id + 1) * idx.d)

RECURSIVE InnerProduct(_, _)
InnerProduct(x, y) ==
    IF x = <<>> \/ y = <<>> THEN 0
    ELSE Head(x) * Head(y) + InnerProduct(Tail(x), Tail(y))

Score(idx, query, id) == InnerProduct(query, Row(idx, id))

\* A faulty variant of SearchResults: the first rows in insertion order, not ranked.
SearchResultsUnranked(idx, query, k) ==
    {[j \in 1..k |-> IF j <= Min(k, idx.ntotal) THEN <<j - 1, Score(idx, query, j - 1)>>
                                                ELSE <<NoLabel, NegInf>>]}

\* What the flat index may answer to search(query, k): k entries, the
\* min(k, ntotal) best rows by descending inner product (the order among
\* equal scores is the library's), then entries with label -1.
SearchResults(idx, query, k) ==
    LET n == idx.ntotal
        m == Min(k, n)
        ids == 0..(n - 1)
        best == {s \in [1..m -> ids] :
                    /\ \A i, j \in 1..m : i # j => s[i] # s[j]
                    /\ \A i, j \in 1..m : i < j => Score(idx, query, s[i]) >= Score(idx, query, s[j])
                    /\ \A id \in ids : (\A i \in 1..m : s[i] # id) =>
                          \A i \in 1..m : Score(idx, query, id) <= Score(idx, query, s[i])}
    IN  {[j \in 1..k |-> IF j <= m THEN <<s[j], Score(idx, query, s[j])>>
                                   ELSE <<NoLabel, NegInf>>] : s \in best}

\* write_index / read_index: header (d, ntotal), then the rows.
Serialize(idx) == <<idx.d, idx.ntotal>> \o idx.xb

Readable(bytes) ==
    /\ Len(bytes) >= 2
    /\ Len(bytes) = 2 + bytes[1] * bytes[2]

Deserialize(bytes) ==
    [d |-> bytes[1], ntotal |-> bytes[2], xb |-> SubSeq(bytes, 3, 2 + bytes[1] * bytes[2])]

\* ------------------------------------------------------------------- init
Init ==
    /\ dimension \in Dims
    /\ index = EmptyIndex(dimension)
    /\ holders = {}
    /\ poisoned = FALSE
    /\ files = [p \in Paths |-> <<>>]
    /\ pc = [t \in Threads |-> "idle"]
    /\ op = [t \in Threads |-> NoOp]
    /\ loc = [t \in Threads |-> NoLoc]
    /\ res = [t \in Threads |-> NoRes]
    /\ pre = [t \in Threads |-> NoPre]
    /\ saved = [p \in Paths |-> NoSaved]

\* ---------------------------------------------------------------- helpers
Finish(t, r) ==
    /\ res' = [res EXCEPT ![t] = r]
    /\ pc' = [pc EXCEPT ![t] = "done"]

\* A faulty variant of FirstBad: only the first element of the batch is checked.
FirstBadHeadOnly(vectors) ==
    IF vectors # <<>> /\ Len(vectors[1]) # dimension THEN 1 ELSE 0

\* A faulty variant of FirstBad: the last element of the wrong length is the
\* one reported.
LastBad(vectors) ==
    LET bad == {i \in 1..Len(vectors) : Len(vectors[i]) # dimension}
    IN  IF bad = {} THEN 0 ELSE CHOOSE i \in bad : \A j \in bad : i >= j

\* The first element of the batch whose length is not the handle's dimension
\* (0 when every element fits), 1-based.
FirstBad(vectors) ==
    LET bad == {i \in 1..Len(vectors) : Len(vectors[i]) # dimension}
    IN  IF bad = {} THEN 0 ELSE CHOOSE i \in bad : \A j \in bad : i <= j

\* Vectors that calls under way will still append (keeps ntotal <= MaxTotal).
Pending(t) ==
    LET adding == {u \in Threads \ {t} :
                      /\ op[u].name = "add_vectors"
                      /\ pc[u] \in {"lock", "add_start", "add", "add_ntotal"}}
        RECURSIVE Sum(_)
        Sum(S) == IF S = {} THEN 0
                  ELSE LET u == CHOOSE u \in S : TRUE
                       IN  Len(op[u].vectors) + Sum(S \ {u})
    IN  Sum(adding)

\* The MutexGuard goes out of scope.
Unlock(t) ==
    /\ holders' = holders \ {t}
    /\ pre' = [pre EXCEPT ![t] = NoPre]

LockedPc(name) ==
    CASE name = "add_vectors" -> "add_start"
      [] name = "search"      -> "search"
      [] name = "save"        -> "save"
      [] name = "ntotal"      -> "ntotal"
      [] name = "reset"       -> "reset"

\* A faulty variant of CanLock: the lock is given although another thread holds it.
CanLockAlways(t) == TRUE

\* Mutex::lock blocks while another thread holds the guard.
CanLock(t) == holders = {}

\* ---------------------------------------------------------------- actions
\* add_vectors, lines 88-103: the dimension check of every element, before
\* the lock is taken.
AddVectors(t, vectors) ==
    /\ pc[t] = "idle"
    /\ index.ntotal + Len(vectors) + Pending(t) <= MaxTotal
    /\ op' = [op EXCEPT ![t] = [NoOp EXCEPT !.name = "add_vectors", !.vectors = vectors]]
    /\ LET i == FirstBad(vectors)
       IN  IF i # 0
           THEN Finish(t, Err("dimension", <<i - 1, Len(vectors[i]), dimension>>))
           ELSE /\ pc' = [pc EXCEPT ![t] = "lock"]
                /\ res' = res
    /\ UNCHANGED <<dimension, index, holders, poisoned, files, loc, pre, saved>>

\* A faulty variant of Search: with k = 0 the query is not checked.
SearchUncheckedForZeroK(t, query, k) ==
    /\ pc[t] = "idle"
    /\ op' = [op EXCEPT ![t] = [NoOp EXCEPT !.name = "search", !.query = query, !.k = k]]
    /\ IF k # 0 /\ Len(query) # dimension
       THEN Finish(t, Err("dimension", <<Len(query), dimension>>))
       ELSE /\ pc' = [pc EXCEPT ![t] = "lock"]
            /\ res' = res
    /\ UNCHANGED <<dimension, index, holders, poisoned, files, loc, pre, saved>>

\* search, lines 132-140: the dimension check of the query, before the lock.
Search(t, query, k) ==
    /\ pc[t] = "idle"
    /\ op' = [op EXCEPT ![t] = [NoOp EXCEPT !.name = "search", !.query = query, !.k = k]]
    /\ IF Len(query) # dimension
       THEN Finish(t, Err("dimension", <<Len(query), dimension>>))
       ELSE /\ pc' = [pc EXCEPT ![t] = "lock"]
            /\ res' = res
    /\ UNCHANGED <<dimension, index, holders, poisoned, files, loc, pre, saved>>

Save(t, path) ==
    /\ pc[t] = "idle"
    /\ op' = [op EXCEPT ![t] = [NoOp EXCEPT !.name = "save", !.path = path]]
    /\ pc' = [pc EXCEPT ![t] = "lock"]
    /\ UNCHANGED <<dimension, index, holders, poisoned, files, loc, res, pre, saved>>

Ntotal(t) ==
    /\ pc[t] = "idle"
    /\ op' = [op EXCEPT ![t] = [NoOp EXCEPT !.name = "ntotal"]]
    /\ pc' = [pc EXCEPT ![t] = "lock"]
    /\ UNCHANGED <<dimension, index, holders, poisoned, files, loc, res, pre, saved>>

Reset(t) ==
    /\ pc[t] = "idle"
    /\ op' = [op EXCEPT ![t] = [NoOp EXCEPT !.name = "reset"]]
    /\ pc' = [pc EXCEPT ![t] = "lock"]
    /\ UNCHANGED <<dimension, index, holders, poisoned, files, loc, res, pre, saved>>

\* dimension(), lines 202-204: returns the handle's field, no lock.
Dimension(t) ==
    /\ pc[t] = "idle"
    /\ op' = [op EXCEPT ![t] = [NoOp EXCEPT !.name = "dimension"]]
    /\ Finish(t, Ok(<<dimension>>))
    /\ UNCHANGED <<dimension, index, holders, poisoned, files, loc, pre, saved>>

\* self.index.lock().map_err(..)?: a poisoned Mutex gives Err, and the guard
\* inside the PoisonError is dropped with it.
Lock(t) ==
    /\ pc[t] = "lock"
    /\ CanLock(t)
    /\ IF poisoned
       THEN /\ Finish(t, Err("lock", <<>>))
            /\ UNCHANGED <<holders, pre>>
       ELSE /\ holders' = holders \cup {t}
            /\ pre' = [pre EXCEPT ![t] = index]
            /\ pc' = [pc EXCEPT ![t] = LockedPc(op[t].name)]
            /\ res' = res
    /\ UNCHANGED <<dimension, index, poisoned, files, op, loc, saved>>

\* line 110: let start_id = index.ntotal() as i64
AddStartId(t) ==
    /\ pc[t] = "add_start"
    /\ loc' = [loc EXCEPT ![t] = [start_id |-> index.ntotal]]
    /\ pc' = [pc EXCEPT ![t] = "add"]
    /\ UNCHANGED <<dimension, index, holders, poisoned, files, op, res, pre, saved>>

\* line 112, index.add(&flat_vectors): n = len / d rows are copied to the end
\* of the storage ... (with d = 0 the division cannot be made: the call
\* does not come back with a result, see LibPanic).
FaissAdd(t) ==
    /\ pc[t] = "add"
    /\ index.d # 0
    /\ LET flat == Flatten(op[t].vectors)
           n == Len(flat) \div index.d
       IN  index' = [index EXCEPT !.xb = index.xb \o SubSeq(flat, 1, n * index.d)]
    /\ pc' = [pc EXCEPT ![t] = "add_ntotal"]
    /\ UNCHANGED <<dimension, holders, poisoned, files, op, loc, res, pre, saved>>

\* ... and then ntotal is advanced by n.
FaissAddNtotal(t) ==
    /\ pc[t] = "add_ntotal"
    /\ index' = [index EXCEPT !.ntotal = index.ntotal + (Len(Flatten(op[t].vectors)) \div index.d)]
    /\ pc' = [pc EXCEPT ![t] = "add_end"]
    /\ UNCHANGED <<dimension, holders, poisoned, files, op, loc, res, pre, saved>>

\* lines 112-114: index.add fails; the index is as it was.
FaissAddFails(t) ==
    /\ pc[t] = "add"
    /\ Finish(t, Err("add", <<>>))
    /\ loc' = [loc EXCEPT ![t] = NoLoc]
    /\ Unlock(t)
    /\ UNCHANGED <<dimension, index, poisoned, files, op, saved>>

\* A faulty variant of AddEndId: the ID range is taken inclusive of end_id.
AddEndIdInclusive(t) ==
    /\ pc[t] = "add_end"
    /\ Finish(t, Ok(Range(loc[t].start_id, index.ntotal + 1)))
    /\ loc' = [loc EXCEPT ![t] = NoLoc]
    /\ Unlock(t)
    /\ UNCHANGED <<dimension, index, poisoned, files, op, saved>>

\* lines 116-120: end_id, the ID list, and the guard is dropped.
AddEndId(t) ==
    /\ pc[t] = "add_end"
    /\ LET end_id == index.ntotal
       IN  Finish(t, Ok(Range(loc[t].start_id, end_id)))
    /\ loc' = [loc EXCEPT ![t] = NoLoc]
    /\ Unlock(t)
    /\ UNCHANGED <<dimension, index, poisoned, files, op, saved>>

\* lines 147-159: index.search, labels zipped with distances.
FaissSearch(t) ==
    /\ pc[t] = "search"
    /\ \E r \in SearchResults(index, op[t].query, op[t].k) : Finish(t, Ok(r))
    /\ Unlock(t)
    /\ UNCHANGED <<dimension, index, poisoned, files, op, loc, saved>>

\* A faulty variant of FaissSearchFails: the error return keeps the guard.
FaissSearchFailsKeepsGuard(t) ==
    /\ pc[t] = "search"
    /\ Finish(t, Err("search", <<>>))
    /\ UNCHANGED <<dimension, index, holders, poisoned, files, op, loc, pre, saved>>

FaissSearchFails(t) ==
    /\ pc[t] = "search"
    /\ Finish(t, Err("search", <<>>))
    /\ Unlock(t)
    /\ UNCHANGED <<dimension, index, poisoned, files, op, loc, saved>>

\* lines 168-172: faiss::write_index(&*index, path)
WriteIndex(t) ==
    /\ pc[t] = "save"
    /\ files' = [files EXCEPT ![op[t].path] = Serialize(index)]
    /\ saved' = [saved EXCEPT ![op[t].path] = [dimension |-> dimension, index |-> index]]
    /\ Finish(t, Ok(<<>>))
    /\ Unlock(t)
    /\ UNCHANGED <<dimension, index, poisoned, op, loc>>

\* A faulty variant of WriteIndexFails: the failed write also empties the index.
WriteIndexFailsDropsRows(t) ==
    /\ pc[t] = "save"
    /\ UNCHANGED <<files, saved>>
    /\ index' = EmptyIndex(index.d)
    /\ Finish(t, Err("save", <<op[t].path>>))
    /\ Unlock(t)
    /\ UNCHANGED <<dimension, poisoned, op, loc>>

\* write_index fails: the file could not be opened (left as it was), or the
\* write stopped short (a file that ends inside its header).
WriteIndexFails(t) ==
    /\ pc[t] = "save"
    /\ \/ UNCHANGED <<files, saved>>
       \/ /\ files' = [files EXCEPT ![op[t].path] = SubSeq(Serialize(index), 1, 1)]
          /\ saved' = [saved EXCEPT ![op[t].path] = NoSaved]
    /\ Finish(t, Err("save", <<op[t].path>>))
    /\ Unlock(t)
    /\ UNCHANGED <<dimension, index, poisoned, op, loc>>

\* lines 197-198
ReadNtotal(t) ==
    /\ pc[t] = "ntotal"
    /\ Finish(t, Ok(<<index.ntotal>>))
    /\ Unlock(t)
    /\ UNCHANGED <<dimension, index, poisoned, files, op, loc, saved>>

\* A faulty variant of FaissReset: the rows are dropped, the counter is kept.
FaissResetKeepsNtotal(t) ==
    /\ pc[t] = "reset"
    /\ index' = [index EXCEPT !.xb = <<>>]
    /\ Finish(t, Ok(<<>>))
    /\ Unlock(t)
    /\ UNCHANGED <<dimension, poisoned, files, op, loc, saved>>

\* lines 212-216: index.reset()
FaissReset(t) ==
    /\ pc[t] = "reset"
    /\ index' = [index EXCEPT !.ntotal = 0, !.xb = <<>>]
    /\ Finish(t, Ok(<<>>))
    /\ Unlock(t)
    /\ UNCHANGED <<dimension, poisoned, files, op, loc, saved>>

FaissResetFails(t) ==
    /\ pc[t] = "reset"
    /\ Finish(t, Err("reset", <<>>))
    /\ Unlock(t)
    /\ UNCHANGED <<dimension, index, poisoned, files, op, loc, saved>>

\* A panic inside a library call made under the guard: unwinding drops the
\* guard, which poisons the Mutex; the caller sees the panic.
LibPanic(t) ==
    /\ pc[t] \in {"add", "search", "save", "reset"}
    /\ poisoned' = TRUE
    /\ Finish(t, Err("panic", <<>>))
    /\ loc' = [loc EXCEPT ![t] = NoLoc]
    /\ Unlock(t)
    /\ UNCHANGED <<dimension, index, files, op, saved>>

\* A faulty variant of New: the handle's dimension field is not set from the
\* argument.
NewKeepsDimension(t, d) ==
    /\ \A u \in Threads : pc[u] = "idle"
    /\ op' = [op EXCEPT ![t] = [NoOp EXCEPT !.name = "new", !.k = d]]
    /\ index' = EmptyIndex(d)
    /\ holders' = {}
    /\ poisoned' = FALSE
    /\ Finish(t, Ok(<<>>))
    /\ UNCHANGED <<dimension, files, loc, pre, saved>>

\* new, lines 63-77: index_factory(dimension, "Flat", InnerProduct) behind a
\* fresh Mutex; the caller's program goes on with this handle. The dimension
\* is handed to the library as it comes, 0 included.
New(t, d) ==
    /\ \A u \in Threads : pc[u] = "idle"
    /\ op' = [op EXCEPT ![t] = [NoOp EXCEPT !.name = "new", !.k = d]]
    /\ index' = EmptyIndex(d)
    /\ dimension' = d
    /\ holders' = {}
    /\ poisoned' = FALSE
    /\ Finish(t, Ok(<<>>))
    /\ UNCHANGED <<files, loc, pre, saved>>

\* lines 65-71: index_factory fails; no handle is made.
NewFails(t, d) ==
    /\ \A u \in Threads : pc[u] = "idle"
    /\ op' = [op EXCEPT ![t] = [NoOp EXCEPT !.name = "new", !.k = d]]
    /\ Finish(t, Err("construct", <<>>))
    /\ UNCHANGED <<dimension, index, holders, poisoned, files, loc, pre, saved>>

\* A faulty variant of Load: the new handle keeps the dimension of the old one.
LoadKeepsDimension(t, path) ==
    /\ \A u \in Threads : pc[u] = "idle"
    /\ op' = [op EXCEPT ![t] = [NoOp EXCEPT !.name = "load", !.path = path]]
    /\ IF Readable(files[path])
       THEN /\ index' = Deserialize(files[path])
            /\ holders' = {}
            /\ poisoned' = FALSE
            /\ Finish(t, Ok(<<>>))
       ELSE /\ Finish(t, Err("load", <<path>>))
            /\ UNCHANGED <<index, holders, poisoned>>
    /\ UNCHANGED <<dimension, files, loc, pre, saved>>

\* load, lines 177-188: a new handle around the index read from the file,
\* with a Mutex of its own; the caller's program goes on with this handle.
Load(t, path) ==
    /\ \A u \in Threads : pc[u] = "idle"
    /\ op' = [op EXCEPT ![t] = [NoOp EXCEPT !.name = "load", !.path = path]]
    /\ IF Readable(files[path])
       THEN /\ index' = Deserialize(files[path])
            /\ dimension' = index'.d
            /\ holders' = {}
            /\ poisoned' = FALSE
            /\ Finish(t, Ok(<<>>))
       ELSE /\ Finish(t, Err("load", <<path>>))
            /\ UNCHANGED <<dimension, index, holders, poisoned>>
    /\ UNCHANGED <<files, loc, pre, saved>>

\* The call has returned; the thread is free for its next call.
Return(t) ==
    /\ pc[t] = "done"
    /\ pc' = [pc EXCEPT ![t] = "idle"]
    /\ op' = [op EXCEPT ![t] = NoOp]
    /\ res' = [res EXCEPT ![t] = NoRes]
    /\ UNCHANGED <<dimension, index, holders, poisoned, files, loc, pre, saved>>

Step(t) ==
    \/ Lock(t)
    \/ AddStartId(t)
    \/ FaissAdd(t)
    \/ FaissAddNtotal(t)
    \/ FaissAddFails(t)
    \/ AddEndId(t)
    \/ FaissSearch(t)
    \/ FaissSearchFails(t)
    \/ WriteIndex(t)
    \/ WriteIndexFails(t)
    \/ ReadNtotal(t)
    \/ FaissReset(t)
    \/ FaissResetFails(t)
    \/ LibPanic(t)
    \/ Return(t)

\* One caller, every input.
NextSeq ==
    \/ \E vectors \in Batches : AddVectors(1, vectors)
    \/ \E query \in Queries, k \in 0..MaxK : Search(1, query, k)
    \/ \E path \in Paths : Save(1, path)
    \/ \E path \in Paths : Load(1, path)
    \/ \E d \in NewDims : New(1, d)
    \/ \E d \in NewDims : NewFails(1, d)
    \/ Ntotal(1)
    \/ Reset(1)
    \/ Dimension(1)
    \/ Step(1)

SpecSeq == Init /\ [][NextSeq]_vars

\* Concurrent callers on one handle; fewer inputs per caller.
ConcBatches == {<< <<10, 0>>, <<9, 1>> >>, << <<10, 0>>, <<10>> >>}

Next ==
    \E t \in Threads :
        \/ \E vectors \in ConcBatches : AddVectors(t, vectors)
        \/ Search(t, <<10, 0>>, MaxK)
        \/ \E path \in Paths : Save(t, path)
        \/ Ntotal(t)
        \/ Reset(t)
        \/ Dimension(t)
        \/ Step(t)

Spec == Init /\ [][Next]_vars

\* The concurrent callers under a fair scheduler: a thread that can take a
\* step of its call is run in the end. Nothing is assumed about which of
\* several waiters gets the lock when it comes free: std::sync::Mutex hands
\* it to whichever thread takes it first.
SpecFair ==
    /\ Init
    /\ [][Next]_vars
    /\ \A t \in Threads : WF_vars(Step(t))

\* Every thread calls add_vectors once, with one vector, on the new index.
NextAdd ==
    \E t \in Threads :
        \/ \E v \in Pool : op[t] = NoOp /\ AddVectors(t, <<v>>)
        \/ Lock(t)
        \/ AddStartId(t)
        \/ FaissAdd(t)
        \/ FaissAddNtotal(t)
        \/ FaissAddFails(t)
        \/ AddEndId(t)
        \/ LibPanic(t)

SpecAdd == Init /\ [][NextAdd]_vars

\* ------------------------------------------------------------------ claims
IsCall(t, name) == op[t].name = name
Returned(t, name) == pc[t] = "done" /\ op[t].name = name
ReturnedOk(t, name) == Returned(t, name) /\ res[t].kind = "ok"

\* The step in which thread t's call of `name` returns Ok.
ReturnsOk(t, name) ==
    /\ op'[t].name = name
    /\ pc[t] # "done"
    /\ pc'[t] = "done"
    /\ res'[t].kind = "ok"

\* C1: an add_vectors call whose vectors all have length dimension, made when
\* ntotal is n, returns the IDs n, n+1, ..., n+batch-1 in input order (the
\* vector stored under the j-th returned ID is the j-th vector of the batch),
\* and leaves ntotal at n + batch; this whatever calls came before.
C1_AddReturnsContiguousIds ==
    [][\A t \in Threads :
          ReturnsOk(t, "add_vectors") =>
              LET n == pre[t].ntotal
                  batch == op[t].vectors
              IN  /\ res'[t].val = [j \in 1..Len(batch) |-> n + j - 1]
                  /\ index'.ntotal = n + Len(batch)
                  /\ \A j \in 1..Len(batch) : Row(index', n + j - 1) = batch[j]
                  /\ \A id \in 0..(n - 1) : Row(index', id) = Row(pre[t], id)]_vars

C1_Witness ==
    /\ ReturnedOk(1, "add_vectors")
    /\ op[1].vectors = << <<9, 1>>, <<10, 0>> >>
    /\ res[1].val = <<1, 2>>
    /\ index.ntotal = 3
    /\ files["index.bin"] # <<>>

\* C2: an add_vectors call whose batch holds a vector of the wrong length
\* never gets past the check (it ends with the dimension error, without
\* taking the lock), and the step that makes it changes neither the index
\* nor the files, also when correctly sized vectors come first in the batch.
HasWrongSize(vectors) == \E i \in 1..Len(vectors) : Len(vectors[i]) # dimension

C2_AddAllOrNothing ==
    /\ [](\A t \in Threads :
             (IsCall(t, "add_vectors") /\ HasWrongSize(op[t].vectors)) =>
                 /\ pc[t] = "done"
                 /\ res[t].kind = "err"
                 /\ res[t].cause = "dimension"
                 /\ res[t].type = "PyValueError")
    /\ [][\A t \in Threads :
             (pc[t] = "idle" /\ op'[t].name = "add_vectors" /\ HasWrongSize(op'[t].vectors)) =>
                 /\ index' = index
                 /\ dimension' = dimension
                 /\ files' = files]_vars

C2_Witness ==
    /\ Returned(1, "add_vectors")
    /\ op[1].vectors = << <<10, 0>>, <<10>> >>
    /\ res[1].cause = "dimension"
    /\ dimension = 2
    /\ index.ntotal = 2

\* C3: when every thread has called add_vectors once with one correctly
\* sized vector on the new index and all calls have returned, ntotal is the
\* number of threads and the IDs returned are exactly 0 .. N-1, each to one
\* caller.
C3_ConcurrentAddsGetDistinctIds ==
    (\A t \in Threads : ReturnedOk(t, "add_vectors")) =>
        /\ index.ntotal = NThreads
        /\ \A t \in Threads : Len(res[t].val) = 1
        /\ {res[t].val[1] : t \in Threads} = 0..(NThreads - 1)
        /\ \A t, u \in Threads : t # u => res[t].val # res[u].val

C3_Witness ==
    /\ \A t \in Threads : ReturnedOk(t, "add_vectors")
    /\ res[1].val = <<1>>
    /\ index.ntotal = NThreads

\* C4: a search that succeeds returns exactly min(k, count) entries, each
\* with the ID of a stored vector, never an entry with an invalid ID.
C4_SearchReturnsMinKCount ==
    \A t \in Threads :
        ReturnedOk(t, "search") =>
            /\ Len(res[t].val) = Min(op[t].k, index.ntotal)
            /\ \A j \in 1..Len(res[t].val) : res[t].val[j][1] \in 0..(index.ntotal - 1)

\* C5: a search that succeeds returns the stored vectors with the highest
\* inner products against the query, by descending score, each with its
\* insertion-order ID and its inner product; no stored vector left out scores
\* strictly higher than a returned one.
Entry(t, j) == res[t].val[j]
Stored(t) == {j \in 1..Len(res[t].val) : Entry(t, j)[1] # NoLabel}

C5_SearchReturnsTopK ==
    \A t \in Threads :
        ReturnedOk(t, "search") =>
            LET q == op[t].query
                ids == {Entry(t, j)[1] : j \in Stored(t)}
            IN  /\ Cardinality(Stored(t)) = Min(op[t].k, index.ntotal)
                /\ \A j \in Stored(t) :
                      /\ Entry(t, j)[1] \in 0..(index.ntotal - 1)
                      /\ Entry(t, j)[2] = InnerProduct(q, Row(index, Entry(t, j)[1]))
                /\ \A i, j \in Stored(t) : i # j => Entry(t, i)[1] # Entry(t, j)[1]
                /\ \A i, j \in 1..Len(res[t].val) : i < j => Entry(t, i)[2] >= Entry(t, j)[2]
                /\ \A id \in (0..(index.ntotal - 1)) \ ids :
                      \A j \in 1..Len(res[t].val) :
                          InnerProduct(q, Row(index, id)) <= Entry(t, j)[2]

C5_Witness ==
    /\ ReturnedOk(1, "search")
    /\ index.xb = <<9, 1, 10, 0, 9, 1>>
    /\ op[1].query = <<10, 0>>
    /\ op[1].k = 2
    /\ res[1].val = << <<1, 100>>, <<2, 90>> >>

\* C6: a reset that succeeds leaves the index empty with its dimension as it
\* was, however many vectors it held; the index then stays empty until an
\* add_vectors call appends to it (or a new handle replaces it), and an
\* add_vectors call that finds the index empty returns IDs starting at 0.
C6_ResetRestartsIds ==
    /\ [][\A t \in Threads :
             ReturnsOk(t, "reset") =>
                 /\ index' = EmptyIndex(index.d)
                 /\ dimension' = dimension]_vars
    /\ [][(index.ntotal = 0 /\ index' # index) =>
             \/ \E t \in Threads : pc[t] \in {"add", "add_ntotal"}
             \/ \E t \in Threads : op'[t].name \in {"new", "load"} /\ pc[t] = "idle"]_vars
    /\ [][\A t \in Threads :
             (ReturnsOk(t, "add_vectors") /\ pre[t].ntotal = 0) =>
                 res'[t].val = [j \in 1..Len(op[t].vectors) |-> j - 1]]_vars

C6_Witness ==
    \E t, u \in Threads :
        /\ ReturnedOk(t, "reset")
        /\ ReturnedOk(u, "add_vectors")
        /\ res[u].val = <<0, 1>>
        /\ index.ntotal = 2
        /\ saved["index.bin"].index.ntotal = 2

\* C7: save(path) followed by load(path) gives a handle with the dimension,
\* the ntotal and, ID by ID, the vectors the saved handle had at the save;
\* and every file a successful save wrote can be loaded.
C7_SaveLoadRoundTrip ==
    /\ [](\A p \in Paths : saved[p] # NoSaved => Readable(files[p]))
    /\ [][\A t \in Threads :
             ReturnsOk(t, "load") =>
                 LET was == saved[op'[t].path]
                 IN  /\ dimension' = was.dimension
                     /\ index'.d = was.index.d
                     /\ index'.ntotal = was.index.ntotal
                     /\ \A id \in 0..(was.index.ntotal - 1) :
                           Row(index', id) = Row(was.index, id)
                     /\ index' = was.index]_vars

C7_Witness ==
    /\ ReturnedOk(1, "load")
    /\ dimension = 1
    /\ index.ntotal = 2
    /\ saved["index.bin"] = [dimension |-> dimension, index |-> index]

\* C8 (as claimed): every call, reading or mutating, takes the index lock:
\* no call returns without having gone through self.index.lock().
C8_EveryCallTakesLock ==
    [][\A t \in Threads :
          (pc[t] # "done" /\ pc'[t] = "done") => (t \in holders \/ pc[t] = "lock")]_vars

\* C8 (amended): add_vectors, search, save, ntotal and reset hold the one
\* index lock from before their first access to the stored index until they
\* return, at most one thread holds it, and the index changes only in a step
\* of the holder; the calls that return without locking are dimension() and
\* the add_vectors and search calls whose length check against the handle's
\* dimension field fails.
UnderLock == {"add_start", "add", "add_ntotal", "add_end", "search", "save", "ntotal", "reset"}

C8_IndexAccessUnderLock ==
    /\ [](Cardinality(holders) <= 1)
    /\ [](\A t \in Threads : pc[t] \in UnderLock <=> t \in holders)
    /\ [][index' # index => \E t \in holders : pc'[t] # pc[t]]_vars
    /\ [][\A t \in Threads :
             (pc[t] # "done" /\ pc'[t] = "done" /\ t \notin holders /\ pc[t] # "lock") =>
                 \/ op'[t].name = "dimension"
                 \/ /\ op'[t].name \in {"add_vectors", "search"}
                    /\ res'[t].cause = "dimension"]_vars

C8_Witness ==
    \E t, u \in Threads :
        /\ pc[t] = "add_ntotal"
        /\ holders = {t}
        /\ pc[u] = "lock"
        /\ op[u].name = "search"

\* C9: concurrent calls take effect one at a time in the order in which they
\* took the lock: a call sees the index as the previous holder left it
\* (never a half-made add), its result and its effect are those of the same
\* call made alone on that index, and nothing changes the index in between.
AsIfAlone(t) ==
    LET was == pre[t]
        call == op[t]
        r == res'[t]
    IN  CASE r.kind = "err" ->
               index' = was
          [] r.kind = "ok" /\ call.name = "add_vectors" ->
               /\ r.val = [j \in 1..Len(call.vectors) |-> was.ntotal + j - 1]
               /\ index' = [d |-> was.d,
                            ntotal |-> was.ntotal + Len(call.vectors),
                            xb |-> was.xb \o Flatten(call.vectors)]
          [] r.kind = "ok" /\ call.name = "search" ->
               /\ r.val \in SearchResults(was, call.query, call.k)
               /\ index' = was
          [] r.kind = "ok" /\ call.name = "ntotal" ->
               /\ r.val = <<was.ntotal>>
               /\ index' = was
          [] r.kind = "ok" /\ call.name = "save" ->
               /\ files'[call.path] = Serialize(was)
               /\ index' = was
          [] r.kind = "ok" /\ call.name = "reset" ->
               index' = EmptyIndex(was.d)

Whole(idx) == Len(idx.xb) = idx.d * idx.ntotal

C9_LockOrderLinearizable ==
    /\ [](Cardinality(holders) <= 1)
    /\ [](holders = {} => Whole(index))
    /\ [][\A t \in Threads :
             (t \notin holders /\ t \in holders') => (Whole(index) /\ pre'[t] = index)]_vars
    /\ [][\A t \in Threads :
             (t \in holders /\ t \notin holders') => AsIfAlone(t)]_vars
    /\ [][(holders = {} /\ holders' = {}) => index' = index]_vars

C9_Witness ==
    \E t, u \in Threads :
        /\ pc[t] = "add_ntotal"
        /\ ~Whole(index)
        /\ pc[u] = "lock"
        /\ op[u].name = "ntotal"

\* C10 (as claimed): the error a call gives on a poisoned lock has a type of
\* its own: no other kind of error returned by a call has the same type.
C10_LockErrorHasOwnType ==
    \A t, u \in Threads :
        (/\ pc[t] = "done" /\ res[t].kind = "err" /\ res[t].cause = "lock"
         /\ pc[u] = "done" /\ res[u].kind = "err" /\ res[u].cause # "lock") =>
            res[t].type # res[u].type

\* C11: a search call whose query has a length other than the handle's
\* dimension ends at the check: it returns the dimension error (a
\* PyValueError naming the query's length and the dimension) and no result
\* list, it never takes the lock, and the step that makes it leaves the
\* index, the dimension and the files as they were; this for every k, 0
\* included, and on the empty index as on a filled one.
C11_SearchRejectsWrongQuery ==
    /\ [](\A t \in Threads :
             (IsCall(t, "search") /\ Len(op[t].query) # dimension) =>
                 /\ pc[t] = "done"
                 /\ res[t] = [kind |-> "err", cause |-> "dimension", type |-> "PyValueError",
                              val |-> <<Len(op[t].query), dimension>>])
    /\ [][\A t \in Threads :
             (pc[t] = "idle" /\ op'[t].name = "search" /\ Len(op'[t].query) # dimension) =>
                 /\ index' = index
                 /\ dimension' = dimension
                 /\ files' = files
                 /\ holders' = holders]_vars

C11_Witness ==
    /\ Returned(1, "search")
    /\ op[1].query = <<10>>
    /\ op[1].k = 0
    /\ res[1].cause = "dimension"
    /\ dimension = 2
    /\ index.ntotal = 0

\* C12: for every dimension d > 0, a new(d) that succeeds gives a handle
\* whose index is empty and of dimension d and whose dimension field is d;
\* on a handle whose lock is sound, ntotal() returns the number of stored
\* vectors and dimension() the dimension field, so on the new handle they
\* return 0 and d.
C12_NewIsEmptyWithDimension ==
    /\ [][\A t \in Threads :
             (ReturnsOk(t, "new") /\ op'[t].k > 0) =>
                 /\ dimension' = op'[t].k
                 /\ index' = EmptyIndex(op'[t].k)
                 /\ holders' = {}
                 /\ ~poisoned']_vars
    /\ [][\A t \in Threads :
             /\ (pc[t] = "lock" /\ op[t].name = "ntotal" /\ pc'[t] = "done") => poisoned
             /\ ReturnsOk(t, "ntotal") => res'[t].val = <<index.ntotal>>
             /\ (pc[t] = "idle" /\ op'[t].name = "dimension") =>
                   (pc'[t] = "done" /\ res'[t] = Ok(<<dimension>>))]_vars
    /\ [](\A t \in Threads : Returned(t, "ntotal") => res[t].cause \in {"", "lock"})

C12_Witness ==
    /\ ReturnedOk(1, "new")
    /\ op[1].k = 2
    /\ dimension = 2
    /\ index = EmptyIndex(2)
    /\ saved["index.bin"].index.ntotal = 2
    /\ saved["index.bin"].dimension = 1

\* C13 (as claimed): load tells its two failures apart by type: a path with
\* no file fails with the I/O error type, a file that exists but does not
\* hold a whole index (here: one that ends inside its header) fails with a
\* type other than that; in both cases the caller gets no new handle.
C13_LoadErrorsDistinctTypes ==
    \A t \in Threads :
        (Returned(t, "load") /\ res[t].kind = "err") =>
            /\ files[op[t].path] = <<>> => res[t].type = "PyIOError"
            /\ files[op[t].path] # <<>> => res[t].type # "PyIOError"

\* C14 (as claimed): new(0) is rejected: it returns an error of the
\* construction error type and the caller gets no handle (the handle in use
\* stays the one it was).
C14_NewRejectsZeroDimension ==
    /\ \A t \in Threads :
          (Returned(t, "new") /\ op[t].k = 0) =>
              /\ res[t].kind = "err"
              /\ res[t].type = "ConstructionError"
    /\ dimension # 0

\* C15: search, save, ntotal and dimension never change the index: no step
\* of such a call, whether the call ends in a result or in an error (a save
\* whose write fails and a search with a query of the wrong length among
\* them), changes the dimension, the count or the stored vectors, and a call
\* that held the lock leaves the index as it found it.
Readers == {"search", "save", "ntotal", "dimension"}

C15_ReadersLeaveIndexUnchanged ==
    /\ [][\A t \in Threads :
             (pc'[t] # pc[t] /\ (op[t].name \in Readers \/ op'[t].name \in Readers)) =>
                 /\ index' = index
                 /\ dimension' = dimension]_vars
    /\ [][\A t \in Threads :
             (t \in holders /\ t \notin holders' /\ op[t].name \in Readers) =>
                 index' = pre[t]]_vars

C15_Witness ==
    \E t \in Threads :
        /\ Returned(t, "save")
        /\ res[t].kind = "err"
        /\ files["index.bin"] = <<2>>
        /\ index.ntotal = 2
        /\ index.xb = <<10, 0, 9, 1>>

\* C16 (as claimed): among stored vectors with equal scores a search ranks
\* the lower ID first, and when equal scores meet at the k-th place the
\* lower IDs are the ones returned; so the answer to a query and k on a
\* given index is one fixed list.
C16_TiesByAscendingId ==
    \A t \in Threads :
        ReturnedOk(t, "search") =>
            LET q == op[t].query
                ids == {Entry(t, j)[1] : j \in Stored(t)}
            IN  /\ \A i, j \in Stored(t) :
                      (i < j /\ Entry(t, i)[2] = Entry(t, j)[2]) => Entry(t, i)[1] < Entry(t, j)[1]
                /\ \A id \in (0..(index.ntotal - 1)) \ ids :
                      \A j \in Stored(t) :
                          Score(index, q, id) = Entry(t, j)[2] => Entry(t, j)[1] < id

\* C17: the dimension error of add_vectors names the first element of the
\* batch that has the wrong length (0-based, the lowest such position), the
\* length that element has and the dimension expected, also when several
\* elements of the batch have a wrong length.
C17_ErrorNamesFirstOffender ==
    \A t \in Threads :
        (Returned(t, "add_vectors") /\ res[t].cause = "dimension") =>
            \E i \in 1..Len(op[t].vectors) :
                /\ Len(op[t].vectors[i]) # dimension
                /\ \A j \in 1..(i - 1) : Len(op[t].vectors[j]) = dimension
                /\ res[t].val = <<i - 1, Len(op[t].vectors[i]), dimension>>
                /\ res[t].type = "PyValueError"

C17_Witness ==
    /\ Returned(1, "add_vectors")
    /\ op[1].vectors = << <<9, 1>>, <<10, 0>> >>
    /\ dimension = 1
    /\ res[1].val = <<0, 2, 1>>
    /\ index.ntotal = 1

\* C18: the dimension of a handle is fixed when the handle is made (the
\* argument of new, the dimension of the index read by load) and no
\* add_vectors, search, save, ntotal, dimension or reset call changes it; it
\* is at all times the dimension of the index behind the lock, and every
\* stored vector has exactly that many components.
HandleCalls == {"add_vectors", "search", "save", "ntotal", "dimension", "reset"}

C18_DimensionIsFixed ==
    /\ [](dimension = index.d)
    /\ [](/\ Len(index.xb) >= index.d * index.ntotal
          /\ \A id \in 0..(index.ntotal - 1) : Len(Row(index, id)) = dimension)
    /\ [][\A t \in Threads :
             (pc'[t] # pc[t] /\ (op[t].name \in HandleCalls \/ op'[t].name \in HandleCalls)) =>
                 /\ dimension' = dimension
                 /\ index'.d = index.d]_vars
    /\ [][\A t \in Threads :
             /\ ReturnsOk(t, "new") => dimension' = op'[t].k
             /\ ReturnsOk(t, "load") => dimension' = files[op'[t].path][1]]_vars

C18_Witness ==
    /\ ReturnedOk(1, "reset")
    /\ dimension = 1
    /\ index = EmptyIndex(1)
    /\ saved["index.bin"].dimension = 2
    /\ saved["index.bin"].index.ntotal = 2

\* C19 (as claimed): under a fair scheduler every call that was started
\* returns.
C19_EveryCallReturns ==
    \A t \in Threads : (pc[t] \notin {"idle", "done"}) ~> (pc[t] = "done")

\* C19 (amended): every call gives the lock back on every way out (a thread
\* that has returned, with a result, an error or a panic, holds nothing); no
\* call takes the lock while it holds it, and a holder never waits for the
\* lock; whenever a call is under way some thread can take a step (no
\* deadlock); under a fair scheduler every call that holds the lock returns
\* and a lock that is waited for does not stay free; and every call that was
\* started returns if, besides, no waiter is passed over for the lock for
\* ever.
LockHandOverFair == \A t \in Threads : SF_vars(Lock(t))

C19_LockReleasedAndHoldersReturn ==
    /\ [](\A t \in Threads : t \in holders => pc[t] \in UnderLock)
    /\ [][\A t \in Threads :
             /\ (t \notin holders /\ t \in holders') => (pc[t] = "lock" /\ holders = {})
             /\ t \in holders => pc'[t] # "lock"]_vars
    /\ []((\E t \in Threads : pc[t] # "idle") => \E u \in Threads : ENABLED Step(u))
    /\ \A t \in Threads : (t \in holders) ~> (pc[t] = "done")
    /\ \A t \in Threads : (pc[t] = "lock") ~> (pc[t] = "done" \/ holders # {})
    /\ LockHandOverFair => C19_EveryCallReturns

C19_Witness ==
    \E t, u \in Threads :
        /\ Returned(t, "save")
        /\ res[t].cause = "panic"
        /\ Returned(u, "add_vectors")
        /\ res[u].cause = "lock"
        /\ holders = {}

====
